---- MODULE Spec2Model ----
(***************************************************************************)
(* A model of system_monitor.py (class SystemMonitor): the alert           *)
(* evaluator, the service checker, the log scanner, the retention sweeper  *)
(* and the daily run that strings them together.                           *)
(*                                                                         *)
(* Python values are modelled as follows.  A str is a sequence of          *)
(* one-character strings.  A dict is a sequence of [key, val] records with *)
(* distinct keys, in insertion order.  The tri-state service status        *)
(* True / False / None is "True" / "False" / "None".  Percentages,         *)
(* temperatures and timestamps are integers.                               *)
(***************************************************************************)
EXTENDS Integers, Sequences, FiniteSets, TLC

VARIABLES
    info,           \* the snapshot handed to check_alerts
    alerts,         \* the list check_alerts returned
    pc_alerts,      \* "idle" | "call" | "done": position around check_alerts
    check_services_cfg, \* config['monitoring']['check_services']
    services,       \* the dict check_services builds
    svc_i,          \* check_services: index of the next configured service
    queries,        \* the systemctl queries made so far and how each ended
    pc_services,    \* "idle" | "loop" | "done": position in check_services
    log_files,      \* config['monitoring']['log_files']
    log_fs,         \* the log files on disk: path -> [status, lines]
    log_i,          \* analyze_logs: index of the next configured log file
    log_analysis,   \* the three lists analyze_logs builds
    log_errors,     \* the files whose scan raised ("Error analyzing ...")
    pc_logs,        \* "idle" | "loop" | "done": position in analyze_logs
    entry,          \* the method called: "run_daily_report" | "clean_old_reports" | "none"
    pc_run,         \* position in run_daily_report / clean_old_reports
    now,            \* the clock, in seconds
    keep_days,      \* config['reports']['keep_days']
    output_dir_exists,  \* whether config['reports']['output_dir'] exists
    files,          \* the files of the output directory: name -> st_mtime
    report_path,    \* the name generate_odf_report returned, <<>> before
    delivery,       \* "none" | "sent" | "failed": how server.send_message ended
    pending,        \* clean_old_reports: glob matches not yet visited
    cutoff_date,    \* clean_old_reports: datetime.now() - timedelta(days=keep_days)
    deleted,        \* the names logged as "Deleted old report: ...", in order
    raised_on,      \* the file whose stat() or unlink() raised, <<>> if none
    trace,          \* the calls made and messages logged by this run, in order
    pc_info,        \* get_system_info: the metric collected next, "done" or "raised"
    sampled,        \* get_system_info: the dict built so far, key -> what it holds
    failed,         \* get_system_info: the metrics whose collection failed
    uptime_seconds, \* get_uptime: datetime.now() - boot_time, in whole seconds
    uptime,         \* the string get_uptime returned
    pc_uptime,      \* "idle" | "call" | "done": position around get_uptime
    partitions,     \* get_disk_info: psutil.disk_partitions() and how each usage query ends
    disks,          \* the list get_disk_info returned
    pc_disk,        \* "idle" | "call" | "done": position around get_disk_info
    proc_iter,      \* get_process_info: the processes psutil.process_iter yields
    processes,      \* the dict get_process_info returned
    pc_procs        \* "idle" | "call" | "done": position around get_process_info

vars_alerts == <<info, alerts, pc_alerts>>
vars_services == <<check_services_cfg, services, svc_i, queries, pc_services>>
vars_logs == <<log_files, log_fs, log_i, log_analysis, log_errors, pc_logs>>
vars_run == <<entry, pc_run, now, keep_days, output_dir_exists, files, report_path,
              delivery, pending, cutoff_date, deleted, raised_on, trace>>
vars_sampler == <<pc_info, sampled, failed, uptime_seconds, uptime, pc_uptime,
                  partitions, disks, pc_disk, proc_iter, processes, pc_procs>>
vars == <<vars_alerts, vars_services, vars_logs, vars_run, vars_sampler>>

(***************************************************************************)
(* Bounds of the model.                                                    *)
(***************************************************************************)
MaxDisks == 2
MaxSensors == 2
MaxServices == 2
MaxLogFiles == 3
BurstLen == 12
MaxFiles == 2

(***************************************************************************)
(* Generic helpers for lists and dicts.                                    *)
(***************************************************************************)
\* All sequences over S of length 0..n.
SeqsUpTo(S, n) == UNION {[1..k -> S] : k \in 0..n}

\* The keys of a dict, in insertion order.
Keys(d) == [i \in 1..Len(d) |-> d[i].key]

\* dict[k] = v: overwrite in place when k is present, append otherwise.
DictSet(d, k, v) ==
    IF \E i \in 1..Len(d) : d[i].key = k
    THEN [i \in 1..Len(d) |-> IF d[i].key = k THEN [key |-> k, val |-> v] ELSE d[i]]
    ELSE Append(d, [key |-> k, val |-> v])

\* A list of n copies of e (the mock log entries of a snapshot).
Copies(n, e) == [i \in 1..n |-> e]

(***************************************************************************)
(* str operations, on sequences of characters.                             *)
(***************************************************************************)
Whitespace == {" ", "\n", "\t"}

\* str.strip(): drop leading and trailing whitespace.
RECURSIVE LStrip(_)
LStrip(s) == IF s # <<>> /\ Head(s) \in Whitespace THEN LStrip(Tail(s)) ELSE s
RECURSIVE RStrip(_)
RStrip(s) ==
    IF s # <<>> /\ s[Len(s)] \in Whitespace THEN RStrip(SubSeq(s, 1, Len(s) - 1)) ELSE s
Strip(s) == RStrip(LStrip(s))

\* str.lower(), on the ASCII letters.
UpperLetters ==
    <<"A", "B", "C", "D", "E", "F", "G", "H", "I", "J", "K", "L", "M",
      "N", "O", "P", "Q", "R", "S", "T", "U", "V", "W", "X", "Y", "Z">>
LowerLetters ==
    <<"a", "b", "c", "d", "e", "f", "g", "h", "i", "j", "k", "l", "m",
      "n", "o", "p", "q", "r", "s", "t", "u", "v", "w", "x", "y", "z">>
LowerChar(c) ==
    IF \E k \in 1..26 : UpperLetters[k] = c
    THEN LowerLetters[CHOOSE k \in 1..26 : UpperLetters[k] = c]
    ELSE c
Lower(s) == [k \in 1..Len(s) |-> LowerChar(s[k])]

\* s[:n] and s[-n:].
FirstN(s, n) == SubSeq(s, 1, IF Len(s) < n THEN Len(s) ELSE n)
LastN(s, n) == SubSeq(s, IF Len(s) < n THEN 1 ELSE Len(s) - n + 1, Len(s))

\* `sub in s`: sub occurs in s as a contiguous run of characters.
Contains(s, sub) ==
    \E k \in 0..(Len(s) - Len(sub)) : SubSeq(s, k + 1, k + Len(sub)) = sub

(***************************************************************************)
(* SystemMonitor.__init__: the alert thresholds.                           *)
(***************************************************************************)
thresholds ==
    [cpu_percent |-> 80, memory_percent |-> 85, disk_percent |-> 90, temp_celsius |-> 80]

(***************************************************************************)
(* SystemMonitor.check_alerts.                                             *)
(* An alert string is modelled by the parts that vary in it: the rule that *)
(* produced it, the mount / sensor / service it names, and the number it   *)
(* prints.                                                                 *)
(***************************************************************************)
Alert(r, s, v) == [rule |-> r, subject |-> s, value |-> v]

\* The comparison of a measured value with its threshold: `value > threshold`
\* (after the non-strict variant `value >= threshold`).
ExceedsOrEqual(value, threshold) == value >= threshold
Exceeds(value, threshold) == value > threshold

\* `status is False` (after the variant `not status`, true of None as well).
IsNotTrue(status) == status # "True"
IsFalse(status) == status = "False"

\* for disk in info['disk']: if disk['percent'] > threshold: append
RECURSIVE DiskAlerts(_, _)
DiskAlerts(disk, acc) ==
    IF disk = <<>> THEN acc
    ELSE DiskAlerts(Tail(disk),
            IF Exceeds(Head(disk).percent, thresholds.disk_percent)
            THEN Append(acc, Alert("disk", Head(disk).mountpoint, Head(disk).percent))
            ELSE acc)

\* for sensor, temps in info['temperature'].items(): if temps['current'] > threshold
RECURSIVE TemperatureAlerts(_, _)
TemperatureAlerts(temperature, acc) ==
    IF temperature = <<>> THEN acc
    ELSE TemperatureAlerts(Tail(temperature),
            IF Exceeds(Head(temperature).val.current, thresholds.temp_celsius)
            THEN Append(acc, Alert("temperature", Head(temperature).key,
                                   Head(temperature).val.current))
            ELSE acc)

\* for service, status in info['services'].items(): if status is False
RECURSIVE ServiceAlerts(_, _)
ServiceAlerts(svcs, acc) ==
    IF svcs = <<>> THEN acc
    ELSE ServiceAlerts(Tail(svcs),
            IF IsFalse(Head(svcs).val)
            THEN Append(acc, Alert("service", Head(svcs).key, 0))
            ELSE acc)

\* The variant of check_alerts that stops at the first rule that fires.
check_alerts_first_only(i) ==
    LET a0 == <<>>
        a1 == IF Exceeds(i.cpu.percent_avg, thresholds.cpu_percent)
              THEN Append(a0, Alert("cpu", "", i.cpu.percent_avg)) ELSE a0
        a2 == IF a1 # <<>> THEN a1
              ELSE IF Exceeds(i.memory.percent, thresholds.memory_percent)
              THEN Append(a1, Alert("memory", "", i.memory.percent)) ELSE a1
        a3 == IF a2 # <<>> THEN a2 ELSE DiskAlerts(i.disk, a2)
        a4 == IF a3 # <<>> THEN a3
              ELSE IF i.has_temperature THEN TemperatureAlerts(i.temperature, a3) ELSE a3
        a5 == IF a4 # <<>> THEN a4 ELSE ServiceAlerts(i.services, a4)
        a6 == IF a5 # <<>> THEN a5
              ELSE IF Len(i.logs.errors) > 5
              THEN Append(a5, Alert("errors", "", Len(i.logs.errors))) ELSE a5
        a7 == IF a6 # <<>> THEN a6
              ELSE IF Len(i.logs.auth_failures) > 0
              THEN Append(a6, Alert("auth_failures", "", Len(i.logs.auth_failures))) ELSE a6
    IN  a7

check_alerts(i) ==
    LET a0 == <<>>
        a1 == IF Exceeds(i.cpu.percent_avg, thresholds.cpu_percent)
              THEN Append(a0, Alert("cpu", "", i.cpu.percent_avg)) ELSE a0
        a2 == IF Exceeds(i.memory.percent, thresholds.memory_percent)
              THEN Append(a1, Alert("memory", "", i.memory.percent)) ELSE a1
        a3 == DiskAlerts(i.disk, a2)
        a4 == IF i.has_temperature THEN TemperatureAlerts(i.temperature, a3) ELSE a3
        a5 == ServiceAlerts(i.services, a4)
        a6 == IF Len(i.logs.errors) > 5
              THEN Append(a5, Alert("errors", "", Len(i.logs.errors))) ELSE a5
        a7 == IF Len(i.logs.auth_failures) > 0
              THEN Append(a6, Alert("auth_failures", "", Len(i.logs.auth_failures))) ELSE a6
    IN  a7

(***************************************************************************)
(* Snapshots handed to check_alerts.                                       *)
(***************************************************************************)
MountNames == <<"/", "/home", "/var", "/data">>
SensorNames == <<"coretemp", "acpitz", "nvme", "k10temp">>
ServiceNames == <<"ssh", "docker", "nginx", "apache2">>
Statuses == {"True", "False", "None"}

CpuValues == {thresholds.cpu_percent, thresholds.cpu_percent + 1}
MemoryValues == {thresholds.memory_percent, thresholds.memory_percent + 1}
DiskValues == {thresholds.disk_percent, thresholds.disk_percent + 1}
TempValues == {thresholds.temp_celsius, thresholds.temp_celsius + 1}
ErrorCounts == {0, 5, 6}
AuthCounts == {0, 1}

MockEntry == [file |-> "mock", line |-> <<>>]

DiskLists ==
    {[i \in 1..Len(p) |-> [mountpoint |-> MountNames[i], percent |-> p[i]]] :
        p \in SeqsUpTo(DiskValues, MaxDisks)}
TemperatureDicts ==
    {[i \in 1..Len(t) |-> [key |-> SensorNames[i], val |-> [current |-> t[i]]]] :
        t \in SeqsUpTo(TempValues, MaxSensors)}
ServiceDicts ==
    {[i \in 1..Len(s) |-> [key |-> ServiceNames[i], val |-> s[i]]] :
        s \in SeqsUpTo(Statuses, MaxServices)}

Snapshots ==
    {[cpu |-> [percent_avg |-> c], memory |-> [percent |-> m], disk |-> d,
      has_temperature |-> ht, temperature |-> IF ht THEN t ELSE <<>>,
      services |-> s,
      logs |-> [errors |-> Copies(e, MockEntry), warnings |-> <<>>,
                auth_failures |-> Copies(a, MockEntry)]] :
        c \in CpuValues, m \in MemoryValues, d \in DiskLists, ht \in BOOLEAN,
        t \in TemperatureDicts, s \in ServiceDicts, e \in ErrorCounts, a \in AuthCounts}

(***************************************************************************)
(* SpecAlerts: check_alerts applied to every snapshot.                     *)
(***************************************************************************)
IdleAlerts ==
    /\ info = [cpu |-> [percent_avg |-> 0], memory |-> [percent |-> 0], disk |-> <<>>,
               has_temperature |-> FALSE, temperature |-> <<>>, services |-> <<>>,
               logs |-> [errors |-> <<>>, warnings |-> <<>>, auth_failures |-> <<>>]]
    /\ alerts = <<>>
    /\ pc_alerts = "idle"

IdleInfo ==
    /\ pc_info = "idle"
    /\ sampled = <<>>
    /\ failed = {}

IdleUptime ==
    /\ uptime_seconds = 0
    /\ uptime = <<>>
    /\ pc_uptime = "idle"

IdleDisk ==
    /\ partitions = <<>>
    /\ disks = <<>>
    /\ pc_disk = "idle"

IdleProcs ==
    /\ proc_iter = <<>>
    /\ processes = [total |-> 0, top_cpu |-> <<>>, top_memory |-> <<>>]
    /\ pc_procs = "idle"

IdleSampler == IdleInfo /\ IdleUptime /\ IdleDisk /\ IdleProcs

IdleRun ==
    /\ entry = "none"
    /\ pc_run = "idle"
    /\ now = 0
    /\ keep_days = 0
    /\ output_dir_exists = FALSE
    /\ files = <<>>
    /\ report_path = <<>>
    /\ delivery = "none"
    /\ pending = {}
    /\ cutoff_date = 0
    /\ deleted = <<>>
    /\ raised_on = <<>>
    /\ trace = <<>>

IdleLogs ==
    /\ log_files = <<>>
    /\ log_fs = <<>>
    /\ log_i = 1
    /\ log_analysis = [errors |-> <<>>, warnings |-> <<>>, auth_failures |-> <<>>]
    /\ log_errors = <<>>
    /\ pc_logs = "idle"

IdleServices ==
    /\ check_services_cfg = <<>>
    /\ services = <<>>
    /\ svc_i = 1
    /\ queries = <<>>
    /\ pc_services = "idle"

InitAlerts ==
    /\ info \in Snapshots
    /\ alerts = <<>>
    /\ pc_alerts = "call"
    /\ IdleServices
    /\ IdleLogs
    /\ IdleRun
    /\ IdleSampler

CheckAlerts ==
    /\ pc_alerts = "call"
    /\ alerts' = check_alerts(info)
    /\ pc_alerts' = "done"
    /\ UNCHANGED <<info, vars_services, vars_logs, vars_run, vars_sampler>>

NextAlerts == CheckAlerts

SpecAlerts == InitAlerts /\ [][NextAlerts]_vars

(***************************************************************************)
(* SystemMonitor.check_services.                                           *)
(* One loop iteration per action: the outcome of                           *)
(* subprocess.run(['systemctl', 'is-active', service], timeout=5) is the   *)
(* environment's choice: it completes with some stdout, or raises one of   *)
(* the exceptions the except clause names.                                 *)
(***************************************************************************)
active == <<"a", "c", "t", "i", "v", "e">>

Stdouts ==
    { <<"a", "c", "t", "i", "v", "e", "\n">>,
      <<"a", "c", "t", "i", "v", "e">>,
      <<"i", "n", "a", "c", "t", "i", "v", "e", "\n">>,
      <<"a", "c", "t", "i", "v", "a", "t", "i", "n", "g", "\n">>,
      <<"f", "a", "i", "l", "e", "d", "\n">>,
      <<>> }

Raised == {"TimeoutExpired", "FileNotFoundError", "SubprocessError"}

RunOutcomes ==
    {[raised |-> "none", stdout |-> o] : o \in Stdouts}
        \cup {[raised |-> r, stdout |-> <<>>] : r \in Raised}

\* `result.stdout.strip() == 'active'` (after the variant `'active' in stdout`).
StdoutContainsActive(stdout) == Contains(stdout, active)
StdoutIsActive(stdout) == Strip(stdout) = active

\* The value stored for one service: the try body, or the except clause.
ServiceStatus(outcome) ==
    IF outcome.raised = "none"
    THEN IF StdoutIsActive(outcome.stdout) THEN "True" ELSE "False"
    ELSE "None"

ConfiguredServices == SeqsUpTo({ServiceNames[1], ServiceNames[2]}, MaxServices)

InitServices ==
    /\ check_services_cfg \in ConfiguredServices
    /\ services = <<>>
    /\ svc_i = 1
    /\ queries = <<>>
    /\ pc_services = "loop"
    /\ IdleAlerts
    /\ IdleLogs
    /\ IdleRun
    /\ IdleSampler

\* One iteration of `for service in self.config['monitoring']['check_services']`.
CheckService ==
    /\ pc_services = "loop"
    /\ svc_i <= Len(check_services_cfg)
    /\ \E outcome \in RunOutcomes :
         LET service == check_services_cfg[svc_i]
         IN  /\ services' = DictSet(services, service, ServiceStatus(outcome))
             /\ queries' = Append(queries, [service |-> service, outcome |-> outcome])
    /\ svc_i' = svc_i + 1
    /\ UNCHANGED <<check_services_cfg, pc_services, vars_alerts, vars_logs, vars_run, vars_sampler>>

\* The loop is exhausted: `return services`.
CheckServicesReturn ==
    /\ pc_services = "loop"
    /\ svc_i > Len(check_services_cfg)
    /\ pc_services' = "done"
    /\ UNCHANGED <<check_services_cfg, services, svc_i, queries, vars_alerts, vars_logs, vars_run, vars_sampler>>

NextServices == CheckService \/ CheckServicesReturn

SpecServices == InitServices /\ [][NextServices]_vars

(***************************************************************************)
(* SystemMonitor.analyze_logs.                                             *)
(***************************************************************************)
kw_error ==
    <<"e", "r", "r", "o", "r">>
kw_failed ==
    <<"f", "a", "i", "l", "e", "d">>
kw_warning ==
    <<"w", "a", "r", "n", "i", "n", "g">>
kw_warn ==
    <<"w", "a", "r", "n">>
kw_authentication_failure ==
    <<"a", "u", "t", "h", "e", "n", "t", "i", "c", "a", "t", "i", "o", "n", " ", "f",
      "a", "i", "l", "u", "r", "e">>
kw_invalid_user ==
    <<"i", "n", "v", "a", "l", "i", "d", " ", "u", "s", "e", "r">>

TailLines == 1000
LineLimit == 200
KeepLast == 10

\* The if / elif / elif chain on one line: the list it is appended to (after
\* the variant that tests for warnings before errors).
ClassifyWarningsFirst(line) ==
    IF Contains(Lower(line), kw_warning) \/ Contains(Lower(line), kw_warn) THEN "warnings"
    ELSE IF Contains(Lower(line), kw_error) \/ Contains(Lower(line), kw_failed) THEN "errors"
    ELSE IF Contains(Lower(line), kw_authentication_failure)
            \/ Contains(Lower(line), kw_invalid_user)
         THEN "auth_failures"
    ELSE "ignored"
Classify(line) ==
    IF Contains(Lower(line), kw_error) \/ Contains(Lower(line), kw_failed) THEN "errors"
    ELSE IF Contains(Lower(line), kw_warning) \/ Contains(Lower(line), kw_warn) THEN "warnings"
    ELSE IF Contains(Lower(line), kw_authentication_failure)
            \/ Contains(Lower(line), kw_invalid_user)
         THEN "auth_failures"
    ELSE "ignored"

\* {'file': log_file, 'line': line.strip()[:200]}
LogEntry(log_file, line) == [file |-> log_file, line |-> FirstN(Strip(line), LineLimit)]

\* `for line in lines`, on the analysis so far.
RECURSIVE ScanLines(_, _, _)
ScanLines(log_file, lines, analysis) ==
    IF lines = <<>> THEN analysis
    ELSE LET key == Classify(Head(lines))
         IN  ScanLines(log_file, Tail(lines),
                 IF key = "ignored" THEN analysis
                 ELSE [analysis EXCEPT ![key] = Append(@, LogEntry(log_file, Head(lines)))])

\* `log_analysis[key] = log_analysis[key][-10:]` (after the variant `[:10]`).
KeepFirst10(entries) == FirstN(entries, KeepLast)
Truncate(entries) == LastN(entries, KeepLast)

(***************************************************************************)
(* Log files: sample lines, and the contents a configured file may have.   *)
(***************************************************************************)
line_error_upper ==
    <<"E", "R", "R", "O", "R", " ", "d", "i", "s", "k", "\n">>
line_failed ==
    <<"j", "o", "b", " ", "f", "a", "i", "l", "e", "d", "\n">>
line_warning_error ==
    <<"W", "a", "r", "n", "i", "n", "g", ":", " ", "r", "e", "a", "d", " ", "e", "r",
      "r", "o", "r", "\n">>
line_warn_upper ==
    <<"W", "A", "R", "N", " ", "l", "o", "w", "\n">>
line_warning ==
    <<"w", "a", "r", "n", "i", "n", "g", ":", " ", "h", "o", "t", "\n">>
line_failed_invalid_user ==
    <<"F", "a", "i", "l", "e", "d", " ", "l", "o", "g", "i", "n", ":", " ", "i", "n",
      "v", "a", "l", "i", "d", " ", "u", "s", "e", "r", "\n">>
line_invalid_user ==
    <<"I", "n", "v", "a", "l", "i", "d", " ", "u", "s", "e", "r", " ", "b", "o", "b",
      "\n">>
line_auth_failure ==
    <<"a", "u", "t", "h", "e", "n", "t", "i", "c", "a", "t", "i", "o", "n", " ", "f",
      "a", "i", "l", "u", "r", "e", "\n">>
line_plain ==
    <<"s", "e", "s", "s", "i", "o", "n", " ", "o", "p", "e", "n", "e", "d", "\n">>
line_padded_error ==
    <<" ", " ", "f", "a", "t", "a", "l", " ", "e", "r", "r", "o", "r", " ", " ", "\n">>
line_warn_auth ==
    <<"w", "a", "r", "n", "e", "d", ":", " ", "A", "u", "t", "h", "e", "n", "t", "i",
      "c", "a", "t", "i", "o", "n", " ", "F", "a", "i", "l", "u", "r", "e", "\n">>

Cycle(pattern, n) == [k \in 1..n |-> pattern[((k - 1) % Len(pattern)) + 1]]

MixedLog ==
    <<line_error_upper, line_warn_upper, line_plain, line_warning_error, line_invalid_user,
      line_failed, line_warning, line_failed_invalid_user, line_auth_failure,
      line_padded_error, line_warn_auth>>
ErrorBurst == Cycle(<<line_error_upper, line_failed, line_warning_error>>, BurstLen)
AuthBurst == Cycle(<<line_invalid_user, line_auth_failure, line_warning>>, BurstLen)

LogPaths == <<"/var/log/syslog", "/var/log/auth.log", "/var/log/kern.log", "/var/log/dmesg">>

\* A configured path is missing, or exists and tail on it raises, or exists
\* and is read.
LogFileStates ==
    {[status |-> "missing", lines |-> <<>>], [status |-> "raises", lines |-> MixedLog]}
        \cup {[status |-> "ok", lines |-> c] : c \in {<<>>, MixedLog, ErrorBurst, AuthBurst}}

InitLogs ==
    /\ \E n \in 0..MaxLogFiles :
         /\ log_files = [k \in 1..n |-> LogPaths[k]]
         /\ log_fs \in [1..n -> LogFileStates]
    /\ log_i = 1
    /\ log_analysis = [errors |-> <<>>, warnings |-> <<>>, auth_failures |-> <<>>]
    /\ log_errors = <<>>
    /\ pc_logs = "loop"
    /\ IdleAlerts
    /\ IdleServices
    /\ IdleRun
    /\ IdleSampler

\* `if not Path(log_file).exists(): continue`
SkipMissingLog ==
    /\ pc_logs = "loop"
    /\ log_i <= Len(log_files)
    /\ log_fs[log_i].status = "missing"
    /\ log_i' = log_i + 1
    /\ UNCHANGED <<log_files, log_fs, log_analysis, log_errors, pc_logs,
                   vars_alerts, vars_services, vars_run, vars_sampler>>

\* The try body: tail -n 1000, readlines, classify every line.
ScanLog ==
    /\ pc_logs = "loop"
    /\ log_i <= Len(log_files)
    /\ log_fs[log_i].status = "ok"
    /\ log_analysis' =
           ScanLines(log_files[log_i], LastN(log_fs[log_i].lines, TailLines), log_analysis)
    /\ log_i' = log_i + 1
    /\ UNCHANGED <<log_files, log_fs, log_errors, pc_logs, vars_alerts, vars_services, vars_run, vars_sampler>>

\* (after the variant in which the exception leaves analyze_logs)
OnLogErrorAbort == "raised"

\* `except Exception as e: self.logger.error(...)` is the last statement of
\* the loop body: control stays in the loop over the configured files.
OnLogError == "loop"

\* Popen or readlines raises: `except Exception` logs it and the loop goes on.
ScanLogRaises ==
    /\ pc_logs = "loop"
    /\ log_i <= Len(log_files)
    /\ log_fs[log_i].status = "raises"
    /\ log_errors' = Append(log_errors, log_files[log_i])
    /\ log_i' = log_i + 1
    /\ pc_logs' = OnLogError
    /\ UNCHANGED <<log_files, log_fs, log_analysis, vars_alerts, vars_services, vars_run, vars_sampler>>

\* After the loop: keep the last 10 of each list and return.
AnalyzeLogsReturn ==
    /\ pc_logs = "loop"
    /\ log_i > Len(log_files)
    /\ log_analysis' = [key \in DOMAIN log_analysis |-> Truncate(log_analysis[key])]
    /\ pc_logs' = "done"
    /\ UNCHANGED <<log_files, log_fs, log_i, log_errors, vars_alerts, vars_services, vars_run, vars_sampler>>

NextLogs == SkipMissingLog \/ ScanLog \/ ScanLogRaises \/ AnalyzeLogsReturn

SpecLogs == InitLogs /\ [][NextLogs]_vars

(***************************************************************************)
(* The output directory, SystemMonitor.generate_odf_report (the part that  *)
(* saves the document), send_email_thunderbird, open_in_thunderbird,       *)
(* clean_old_reports and run_daily_report.                                 *)
(***************************************************************************)
Day == 86400
StartTime == 10 * Day

report_prefix ==
    <<"s", "y", "s", "t", "e", "m", "_", "r", "e", "p", "o", "r", "t", "_">>
report_suffix ==
    <<".", "o", "d", "t">>

\* Path.glob("system_report_*.odt") on a file name: the name starts with the
\* text before the star and ends with the text after it, without overlap.
GlobMatch(name) ==
    /\ Len(name) >= Len(report_prefix) + Len(report_suffix)
    /\ SubSeq(name, 1, Len(report_prefix)) = report_prefix
    /\ SubSeq(name, Len(name) - Len(report_suffix) + 1, Len(name)) = report_suffix

\* The timestamp of a file name, rendered in decimal digits.
DigitChars == <<"0", "1", "2", "3", "4", "5", "6", "7", "8", "9">>
RECURSIVE Digits(_)
Digits(n) ==
    IF n < 10 THEN <<DigitChars[n + 1]>>
    ELSE Digits(n \div 10) \o <<DigitChars[(n % 10) + 1]>>

\* f"system_report_{datetime.now().strftime(...)}.odt"
ReportName(t) == report_prefix \o Digits(t) \o report_suffix

\* `report_file.stat().st_mtime < cutoff_date.timestamp()` (after the variant
\* with the comparison reversed).
IsNewerThanCutoff(mtime, cutoff) == mtime > cutoff
IsOlderThanCutoff(mtime, cutoff) == mtime < cutoff

\* d[k] = v and del d[k] on the directory.
WriteFile(dir, name, mtime) ==
    [n \in DOMAIN dir \cup {name} |-> IF n = name THEN mtime ELSE dir[n]]
RemoveFile(dir, name) == [n \in DOMAIN dir \ {name} |-> dir[n]]

\* run_daily_report has no try: an exception raised by generate_odf_report
\* leaves it at once (after the variant that swallows it and goes on).
OnReportErrorContinue == "send_email"
OnReportError == "raised"

\* clean_old_reports has no try: an exception raised by stat() or unlink()
\* leaves the loop, the method and its caller.
OnSweepError == "raised"

\* (after the variant that goes from the report straight to the sweep)
AfterReportSweep == "clean_old_reports"

\* run_daily_report, after generate_odf_report returned: the mail is prepared
\* and send_email_thunderbird is called; clean_old_reports comes after it.
AfterReport == "send_email"

\* Where clean_old_reports returns to.
AfterSweep == IF entry = "run_daily_report" THEN "completed" ELSE "returned"
SweepReturnTrace ==
    IF entry = "run_daily_report" THEN Append(trace, "Daily report completed") ELSE trace

(***************************************************************************)
(* The files found in the output directory when a run starts.              *)
(***************************************************************************)
old_report ==
    <<"s", "y", "s", "t", "e", "m", "_", "r", "e", "p", "o", "r", "t", "_", "1", ".",
      "o", "d", "t">>
bare_report ==
    <<"s", "y", "s", "t", "e", "m", "_", "r", "e", "p", "o", "r", "t", "_", ".", "o",
      "d", "t">>
notes_odt ==
    <<"n", "o", "t", "e", "s", ".", "o", "d", "t">>
report_txt ==
    <<"s", "y", "s", "t", "e", "m", "_", "r", "e", "p", "o", "r", "t", "_", "1", ".",
      "t", "x", "t">>
prefixed_report ==
    <<"m", "y", "_", "s", "y", "s", "t", "e", "m", "_", "r", "e", "p", "o", "r", "t",
      "_", "1", ".", "o", "d", "t">>

FileNames == {old_report, bare_report, notes_odt, report_txt, prefixed_report}
Mtimes == {StartTime - 2 * Day - 1, StartTime - Day, StartTime - 1}
KeepDays == {0, 1, 2}
\* Seconds spent in the notification: the SMTP session has no timeout and
\* subprocess.run(['thunderbird', ...]) waits, without one, until the mail
\* client exits: a second, or more than a day.
Elapsed == {1, Day + 1}

Directories ==
    UNION {[S -> Mtimes] : S \in {T \in SUBSET FileNames : Cardinality(T) <= MaxFiles}}

\* The snapshots a run collects: one that raises no alert, one that raises two.
RunSnapshots ==
    {i \in Snapshots :
        /\ i.disk = <<>> /\ ~i.has_temperature /\ i.logs.errors = <<>>
        /\ i.logs.auth_failures = <<>>
        /\ i.memory.percent = thresholds.memory_percent
        /\ \/ i.services = <<>> /\ i.cpu.percent_avg = thresholds.cpu_percent
           \/ /\ i.services = <<[key |-> ServiceNames[1], val |-> "False"]>>
              /\ i.cpu.percent_avg = thresholds.cpu_percent + 1}

Init ==
    /\ entry \in {"run_daily_report", "clean_old_reports"}
    /\ pc_run = IF entry = "run_daily_report" THEN "get_system_info" ELSE "clean_old_reports"
    /\ now = StartTime
    /\ keep_days \in KeepDays
    /\ output_dir_exists \in BOOLEAN
    /\ files \in (IF output_dir_exists THEN Directories ELSE {<<>>})
    /\ report_path = <<>>
    /\ delivery = "none"
    /\ pending = {}
    /\ cutoff_date = 0
    /\ deleted = <<>>
    /\ raised_on = <<>>
    /\ trace = <<>>
    /\ IdleAlerts
    /\ IdleServices
    /\ IdleLogs
    /\ IdleSampler

\* info = self.get_system_info()
GetSystemInfo ==
    /\ pc_run = "get_system_info"
    /\ info' \in RunSnapshots
    /\ pc_run' = "check_alerts"
    /\ trace' = Append(trace, "get_system_info")
    /\ UNCHANGED <<alerts, pc_alerts, vars_services, vars_logs, entry, now, keep_days,
                   output_dir_exists, files, report_path, delivery, pending, cutoff_date, deleted, raised_on, vars_sampler>>

\* run_daily_report calls get_system_info outside any try block: a collector's
\* exception ends the run before anything is written.
GetSystemInfoRaises ==
    /\ pc_run = "get_system_info"
    /\ pc_run' = "raised"
    /\ trace' = Append(trace, "get_system_info raised")
    /\ UNCHANGED <<vars_alerts, vars_services, vars_logs, entry, now, keep_days,
                   output_dir_exists, files, report_path, delivery, pending, cutoff_date,
                   deleted, raised_on, vars_sampler>>

\* alerts = self.check_alerts(info)
RunCheckAlerts ==
    /\ pc_run = "check_alerts"
    /\ alerts' = check_alerts(info)
    /\ pc_run' = "generate_odf_report"
    /\ trace' = Append(trace, "check_alerts")
    /\ UNCHANGED <<info, pc_alerts, vars_services, vars_logs, entry, now, keep_days,
                   output_dir_exists, files, report_path, delivery, pending, cutoff_date, deleted, raised_on, vars_sampler>>

\* generate_odf_report: mkdir(parents=True, exist_ok=True) and doc.save succeed.
GenerateReport ==
    /\ pc_run = "generate_odf_report"
    /\ output_dir_exists' = TRUE
    /\ files' = WriteFile(files, ReportName(now), now)
    /\ report_path' = ReportName(now)
    /\ pc_run' = AfterReport
    /\ trace' = Append(trace, "Report saved")
    /\ UNCHANGED <<vars_alerts, vars_services, vars_logs, entry, now, keep_days, delivery,
                   pending, cutoff_date, deleted, raised_on, vars_sampler>>

\* generate_odf_report: the missing output directory cannot be created.
GenerateReportMkdirRaises ==
    /\ pc_run = "generate_odf_report"
    /\ ~output_dir_exists
    /\ pc_run' = OnReportError
    /\ trace' = Append(trace, "mkdir raised")
    /\ UNCHANGED <<vars_alerts, vars_services, vars_logs, entry, now, keep_days,
                   output_dir_exists, files, report_path, delivery, pending, cutoff_date, deleted, raised_on, vars_sampler>>

\* generate_odf_report: the directory is there or was created, doc.save raises;
\* a partly written file may be left behind.
GenerateReportSaveRaises ==
    /\ pc_run = "generate_odf_report"
    /\ output_dir_exists' = TRUE
    /\ \E partial \in BOOLEAN :
         files' = IF partial THEN WriteFile(files, ReportName(now), now) ELSE files
    /\ pc_run' = OnReportError
    /\ trace' = Append(trace, "save raised")
    /\ UNCHANGED <<vars_alerts, vars_services, vars_logs, entry, now, keep_days,
                   report_path, delivery, pending, cutoff_date, deleted, raised_on, vars_sampler>>

\* send_email_thunderbird: server.send_message succeeds, `return True`.
SendEmail ==
    /\ pc_run = "send_email"
    /\ delivery' = "sent"
    /\ \E d \in Elapsed : now' = now + d
    /\ pc_run' = "clean_old_reports"
    /\ trace' = Append(trace, "Email sent successfully")
    /\ UNCHANGED <<vars_alerts, vars_services, vars_logs, entry, keep_days,
                   output_dir_exists, files, report_path, pending, cutoff_date, deleted, raised_on, vars_sampler>>

\* send_email_thunderbird: the try body raises; `except Exception` logs it and
\* calls the fallback.
SendEmailRaises ==
    /\ pc_run = "send_email"
    /\ delivery' = "failed"
    /\ pc_run' = "open_in_thunderbird"
    /\ trace' = Append(trace, "Failed to send email")
    /\ UNCHANGED <<vars_alerts, vars_services, vars_logs, entry, now, keep_days,
                   output_dir_exists, files, report_path, pending, cutoff_date, deleted, raised_on, vars_sampler>>

\* open_in_thunderbird: subprocess.run(['thunderbird', ...], check=False) returns,
\* or raises FileNotFoundError, which is caught and logged; then
\* send_email_thunderbird returns False.
OpenInThunderbird ==
    /\ pc_run = "open_in_thunderbird"
    /\ \E launched \in BOOLEAN :
         trace' = Append(Append(trace, "open_in_thunderbird"),
                         IF launched THEN "Email opened in Thunderbird"
                         ELSE "Thunderbird not found")
    /\ \E d \in Elapsed : now' = now + d
    /\ pc_run' = "clean_old_reports"
    /\ UNCHANGED <<vars_alerts, vars_services, vars_logs, entry, keep_days,
                   output_dir_exists, files, report_path, delivery, pending, cutoff_date, deleted, raised_on, vars_sampler>>

\* clean_old_reports: `if not output_dir.exists(): return`
CleanOldReportsNoDir ==
    /\ pc_run = "clean_old_reports"
    /\ ~output_dir_exists
    /\ pc_run' = AfterSweep
    /\ trace' = Append(trace, "clean_old_reports")
    /\ UNCHANGED <<vars_alerts, vars_services, vars_logs, entry, now, keep_days,
                   output_dir_exists, files, report_path, delivery, pending, cutoff_date, deleted, raised_on, vars_sampler>>

\* clean_old_reports: compute the cutoff and start the glob.
CleanOldReportsStart ==
    /\ pc_run = "clean_old_reports"
    /\ output_dir_exists
    /\ cutoff_date' = now - keep_days * Day
    /\ pending' = {n \in DOMAIN files : GlobMatch(n)}
    /\ pc_run' = "sweep"
    /\ trace' = Append(trace, "clean_old_reports")
    /\ UNCHANGED <<vars_alerts, vars_services, vars_logs, entry, now, keep_days,
                   output_dir_exists, files, report_path, delivery, deleted, raised_on, vars_sampler>>

\* One iteration of the loop, when stat() and unlink() succeed.
SweepFile ==
    /\ pc_run = "sweep"
    /\ \E report_file \in pending :
         /\ pending' = pending \ {report_file}
         /\ files' = IF IsOlderThanCutoff(files[report_file], cutoff_date)
                     THEN RemoveFile(files, report_file)
                     ELSE files
         /\ deleted' = IF IsOlderThanCutoff(files[report_file], cutoff_date)
                       THEN Append(deleted, report_file)
                       ELSE deleted
    /\ UNCHANGED <<vars_alerts, vars_services, vars_logs, entry, pc_run, now, keep_days,
                   output_dir_exists, report_path, delivery, cutoff_date, raised_on, trace, vars_sampler>>

\* One iteration of the loop, when report_file.stat() raises.
SweepStatRaises ==
    /\ pc_run = "sweep"
    /\ \E report_file \in pending :
         /\ pending' = pending \ {report_file}
         /\ raised_on' = report_file
    /\ pc_run' = OnSweepError
    /\ trace' = Append(trace, "stat raised")
    /\ UNCHANGED <<vars_alerts, vars_services, vars_logs, entry, now, keep_days,
                   output_dir_exists, files, report_path, delivery, cutoff_date, deleted, vars_sampler>>

\* One iteration of the loop, when report_file.unlink() raises on an expired file.
SweepUnlinkRaises ==
    /\ pc_run = "sweep"
    /\ \E report_file \in pending :
         /\ IsOlderThanCutoff(files[report_file], cutoff_date)
         /\ pending' = pending \ {report_file}
         /\ raised_on' = report_file
    /\ pc_run' = OnSweepError
    /\ trace' = Append(trace, "unlink raised")
    /\ UNCHANGED <<vars_alerts, vars_services, vars_logs, entry, now, keep_days,
                   output_dir_exists, files, report_path, delivery, cutoff_date, deleted, vars_sampler>>

\* The glob is exhausted: clean_old_reports returns, and run_daily_report logs
\* "Daily report completed".
SweepReturn ==
    /\ pc_run = "sweep"
    /\ pending = {}
    /\ pc_run' = AfterSweep
    /\ trace' = SweepReturnTrace
    /\ UNCHANGED <<vars_alerts, vars_services, vars_logs, entry, now, keep_days,
                   output_dir_exists, files, report_path, delivery, pending, cutoff_date, deleted, raised_on, vars_sampler>>

Next ==
    \/ GetSystemInfo
    \/ GetSystemInfoRaises
    \/ RunCheckAlerts
    \/ GenerateReport
    \/ GenerateReportMkdirRaises
    \/ GenerateReportSaveRaises
    \/ SendEmail
    \/ SendEmailRaises
    \/ OpenInThunderbird
    \/ CleanOldReportsNoDir
    \/ CleanOldReportsStart
    \/ SweepFile
    \/ SweepStatRaises
    \/ SweepUnlinkRaises
    \/ SweepReturn

Spec == Init /\ [][Next]_vars

(***************************************************************************)
(* get_system_info: one sampling pass.  The dict literal evaluates its     *)
(* values in the order written; the temperature key is added afterwards.   *)
(* Each collector's outcome is chosen by the environment: "ok", or one of  *)
(* the failures the collector's calls can end in.                          *)
(***************************************************************************)
\* What a collector hands back to get_system_info.
Returns(v) == [raised |-> FALSE, value |-> v]
Raises == [raised |-> TRUE, value |-> "none"]

\* No collector call in the dict literal is inside a try block, so an
\* exception leaving a collector leaves get_system_info as well.
OnMetricError == "raised"

\* psutil.cpu_freq() returning None is replaced by 0; nothing else is handled.
get_cpu_info(outcome) ==
    CASE outcome = "ok" -> Returns("complete")
      [] outcome = "no_frequency" -> Returns("zeroed")
      [] outcome = "fails" -> Raises

get_memory_info(outcome) ==
    CASE outcome = "ok" -> Returns("complete")
      [] outcome = "fails" -> Raises

\* A PermissionError of disk_usage skips that partition; a failure of
\* disk_partitions itself is not handled.
get_disk_info_outcome(outcome) ==
    CASE outcome = "ok" -> Returns("complete")
      [] outcome = "permission_denied" -> Returns("partial")
      [] outcome = "fails" -> Raises

get_network_info(outcome) ==
    CASE outcome = "ok" -> Returns("complete")
      [] outcome = "fails" -> Raises

\* NoSuchProcess and AccessDenied inside the loop skip that process.
get_process_info_outcome(outcome) ==
    CASE outcome = "ok" -> Returns("complete")
      [] outcome = "process_gone" -> Returns("partial")
      [] outcome = "fails" -> Raises

\* check_services turns a failed query into a None status, and analyze_logs
\* logs a failed read and goes on: both always return.
check_services_outcome(outcome) ==
    CASE outcome = "ok" -> Returns("complete")
      [] outcome = "query_failed" -> Returns("partial")

analyze_logs_outcome(outcome) ==
    CASE outcome = "ok" -> Returns("complete")
      [] outcome = "read_failed" -> Returns("partial")

\* try: temps = psutil.sensors_temperatures(); if temps: info['temperature'] = ...
\* except (AttributeError, NotImplementedError): pass.  Any other exception
\* (an OSError of the sensor read, an empty entry list) is not caught.
sensors_temperatures(outcome) ==
    CASE outcome = "ok" -> Returns("complete")
      [] outcome = "no_sensors" -> Returns("none")
      [] outcome = "unsupported" -> Returns("none")
      [] outcome = "fails" -> Raises

MetricOutcomes ==
    [cpu |-> {"ok", "no_frequency", "fails"},
     memory |-> {"ok", "fails"},
     disk |-> {"ok", "permission_denied", "fails"},
     network |-> {"ok", "fails"},
     processes |-> {"ok", "process_gone", "fails"},
     services |-> {"ok", "query_failed"},
     logs |-> {"ok", "read_failed"},
     temperature |-> {"ok", "no_sensors", "unsupported", "fails"}]

InitInfo ==
    /\ pc_info = "uptime"
    /\ sampled = <<>>
    /\ failed = {}
    /\ IdleUptime /\ IdleDisk /\ IdleProcs
    /\ IdleAlerts
    /\ IdleServices
    /\ IdleLogs
    /\ IdleRun

\* One value of the dict literal: store it and go on, or leave by exception.
Evaluate(key, outcome, result, next) ==
    /\ failed' = IF outcome = "ok" THEN failed ELSE failed \cup {key}
    /\ IF result.raised
       THEN /\ pc_info' = (IF OnMetricError = "raised" THEN "raised" ELSE next)
            /\ sampled' = sampled
       ELSE /\ pc_info' = next
            /\ sampled' = Append(sampled, [key |-> key, val |-> result.value])
    /\ UNCHANGED <<uptime_seconds, uptime, pc_uptime, partitions, disks, pc_disk,
                   proc_iter, processes, pc_procs,
                   vars_alerts, vars_services, vars_logs, vars_run>>

\* 'timestamp', 'hostname', 'platform', 'platform_version', 'uptime'
SampleUptime ==
    /\ pc_info = "uptime"
    /\ Evaluate("uptime", "ok", Returns("complete"), "cpu")

SampleCpu ==
    /\ pc_info = "cpu"
    /\ \E o \in MetricOutcomes.cpu : Evaluate("cpu", o, get_cpu_info(o), "memory")

SampleMemory ==
    /\ pc_info = "memory"
    /\ \E o \in MetricOutcomes.memory : Evaluate("memory", o, get_memory_info(o), "disk")

SampleDisk ==
    /\ pc_info = "disk"
    /\ \E o \in MetricOutcomes.disk : Evaluate("disk", o, get_disk_info_outcome(o), "network")

SampleNetwork ==
    /\ pc_info = "network"
    /\ \E o \in MetricOutcomes.network :
           Evaluate("network", o, get_network_info(o), "processes")

SampleProcesses ==
    /\ pc_info = "processes"
    /\ \E o \in MetricOutcomes.processes :
           Evaluate("processes", o, get_process_info_outcome(o), "services")

\* check_services and analyze_logs catch the failures of their own calls.
SampleServices ==
    /\ pc_info = "services"
    /\ \E o \in MetricOutcomes.services :
           Evaluate("services", o, check_services_outcome(o), "logs")

SampleLogs ==
    /\ pc_info = "logs"
    /\ \E o \in MetricOutcomes.logs :
           Evaluate("logs", o, analyze_logs_outcome(o), "temperature")

\* The temperature key is added after the literal, and only for a non-empty
\* reading.
SampleTemperature ==
    /\ pc_info = "temperature"
    /\ \E o \in MetricOutcomes.temperature :
          LET result == sensors_temperatures(o) IN
          /\ failed' = IF o = "ok" THEN failed ELSE failed \cup {"temperature"}
          /\ sampled' = IF result.raised \/ result.value = "none" THEN sampled
                        ELSE Append(sampled, [key |-> "temperature", val |-> result.value])
          /\ pc_info' = IF result.raised /\ OnMetricError = "raised" THEN "raised"
                        ELSE "done"
    /\ UNCHANGED <<uptime_seconds, uptime, pc_uptime, partitions, disks, pc_disk,
                   proc_iter, processes, pc_procs,
                   vars_alerts, vars_services, vars_logs, vars_run>>

NextInfo ==
    \/ SampleUptime
    \/ SampleCpu
    \/ SampleMemory
    \/ SampleDisk
    \/ SampleNetwork
    \/ SampleProcesses
    \/ SampleServices
    \/ SampleLogs
    \/ SampleTemperature

SpecInfo == InitInfo /\ [][NextInfo]_vars

(***************************************************************************)
(* get_disk_info: one usage query per enumerated partition.                *)
(***************************************************************************)
MaxPartitions == 3

\* partition.mountpoint of the i-th partition psutil.disk_partitions() yields.
Mountpoints == <<"/", "/boot", "/home", "/var", "/mnt/usb">>

\* How psutil.disk_usage(mountpoint) ends, and usage.percent when it returns.
UsageStatuses == {"ok", "PermissionError", "OSError"}
UsagePercents == {50, 95}
Usages ==
    {[status |-> "ok", percent |-> p] : p \in UsagePercents}
        \cup {[status |-> s, percent |-> 0] : s \in UsageStatuses \ {"ok"}}

Partition(i, u) == [mountpoint |-> Mountpoints[i], status |-> u.status, percent |-> u.percent]

PartitionLists ==
    UNION {{[i \in 1..k |-> Partition(i, us[i])] : us \in [1..k -> Usages]} :
              k \in 0..MaxPartitions}

\* disks.append({... 'mountpoint': partition.mountpoint, ... 'percent': usage.percent})
DiskEntry(p) == [mountpoint |-> p.mountpoint, percent |-> p.percent]

\* (after the variant that ends the loop at the first PermissionError)
RECURSIVE DiskLoopBreak(_, _)
DiskLoopBreak(ps, acc) ==
    IF ps = <<>> THEN Returns(acc)
    ELSE CASE Head(ps).status = "ok" -> DiskLoopBreak(Tail(ps), Append(acc, DiskEntry(Head(ps))))
           [] Head(ps).status = "PermissionError" -> Returns(acc)
           [] OTHER -> Raises

\* for partition in psutil.disk_partitions(): try: ... disks.append(...)
\* except PermissionError: continue.  Any other exception leaves the function.
RECURSIVE DiskLoop(_, _)
DiskLoop(ps, acc) ==
    IF ps = <<>> THEN Returns(acc)
    ELSE CASE Head(ps).status = "ok" -> DiskLoop(Tail(ps), Append(acc, DiskEntry(Head(ps))))
           [] Head(ps).status = "PermissionError" -> DiskLoop(Tail(ps), acc)
           [] OTHER -> Raises

get_disk_info(ps) == DiskLoop(ps, <<>>)

InitDisk ==
    /\ partitions \in PartitionLists
    /\ disks = <<>>
    /\ pc_disk = "call"
    /\ IdleInfo /\ IdleUptime /\ IdleProcs
    /\ IdleAlerts
    /\ IdleServices
    /\ IdleLogs
    /\ IdleRun

GetDiskInfo ==
    /\ pc_disk = "call"
    /\ ~get_disk_info(partitions).raised
    /\ disks' = get_disk_info(partitions).value
    /\ pc_disk' = "done"
    /\ UNCHANGED <<partitions, pc_info, sampled, failed, uptime_seconds, uptime, pc_uptime,
                   proc_iter, processes, pc_procs,
                   vars_alerts, vars_services, vars_logs, vars_run>>

GetDiskInfoRaises ==
    /\ pc_disk = "call"
    /\ get_disk_info(partitions).raised
    /\ pc_disk' = "raised"
    /\ UNCHANGED <<partitions, disks, pc_info, sampled, failed, uptime_seconds, uptime,
                   pc_uptime, proc_iter, processes, pc_procs,
                   vars_alerts, vars_services, vars_logs, vars_run>>

NextDisk ==
    \/ GetDiskInfo
    \/ GetDiskInfoRaises

SpecDisk == InitDisk /\ [][NextDisk]_vars

(***************************************************************************)
(* get_process_info: the readable processes and the two top-5 rankings.    *)
(***************************************************************************)
MaxProcs == 6
TopN == 5

\* What reading proc.info of one process gives: the info dict, or one of the
\* two exceptions the loop passes over.
ProcStatuses == {"ok", "NoSuchProcess", "AccessDenied"}
ProcUsages ==
    {[cpu_percent |-> 0, memory_percent |-> 2],
     [cpu_percent |-> 50, memory_percent |-> 1],
     [cpu_percent |-> 50, memory_percent |-> 2]}
ProcReads ==
    {[status |-> "ok", cpu_percent |-> u.cpu_percent, memory_percent |-> u.memory_percent] :
        u \in ProcUsages}
      \cup {[status |-> s, cpu_percent |-> 0, memory_percent |-> 0] :
              s \in ProcStatuses \ {"ok"}}

\* psutil.process_iter yields each process once: the pid is the position.
Procs(rs) ==
    [i \in 1..Len(rs) |-> [pid |-> i, status |-> rs[i].status,
                           cpu_percent |-> rs[i].cpu_percent,
                           memory_percent |-> rs[i].memory_percent]]

\* proc.info: {'pid', 'name', 'cpu_percent', 'memory_percent'}
ProcInfo(p) == [pid |-> p.pid, cpu_percent |-> p.cpu_percent,
                memory_percent |-> p.memory_percent]

\* processes.append(proc.info) unless reading it raised.
RECURSIVE ReadableInfos(_)
ReadableInfos(ps) ==
    IF ps = <<>> THEN <<>>
    ELSE (IF Head(ps).status = "ok" THEN <<ProcInfo(Head(ps))>> ELSE <<>>)
             \o ReadableInfos(Tail(ps))

\* sorted(..., reverse=True) is stable: x goes behind every element whose key
\* is greater than or equal to its own.
RECURSIVE InsertDescending(_, _, _)
InsertDescending(s, x, key) ==
    IF s = <<>> THEN <<x>>
    ELSE IF Head(s)[key] >= x[key] THEN <<Head(s)>> \o InsertDescending(Tail(s), x, key)
    ELSE <<x>> \o s

RECURSIVE InsertAscending(_, _, _)
InsertAscending(s, x, key) ==
    IF s = <<>> THEN <<x>>
    ELSE IF Head(s)[key] <= x[key] THEN <<Head(s)>> \o InsertAscending(Tail(s), x, key)
    ELSE <<x>> \o s

\* (after the variant that sorts without reverse=True)
RECURSIVE SortedAscending(_, _)
SortedAscending(s, key) ==
    IF s = <<>> THEN <<>>
    ELSE InsertAscending(SortedAscending(SubSeq(s, 1, Len(s) - 1), key), s[Len(s)], key)

\* sorted(processes, key=lambda x: x[key], reverse=True)
RECURSIVE SortedDescending(_, _)
SortedDescending(s, key) ==
    IF s = <<>> THEN <<>>
    ELSE InsertDescending(SortedDescending(SubSeq(s, 1, Len(s) - 1), key), s[Len(s)], key)

get_process_info(ps) ==
    LET readable == ReadableInfos(ps)
    IN  [total |-> Len(readable),
         top_cpu |-> FirstN(SortedDescending(readable, "cpu_percent"), TopN),
         top_memory |-> FirstN(SortedDescending(readable, "memory_percent"), TopN)]

InitProcs ==
    /\ \E k \in 0..MaxProcs : \E rs \in [1..k -> ProcReads] : proc_iter = Procs(rs)
    /\ processes = [total |-> 0, top_cpu |-> <<>>, top_memory |-> <<>>]
    /\ pc_procs = "call"
    /\ IdleInfo /\ IdleUptime /\ IdleDisk
    /\ IdleAlerts
    /\ IdleServices
    /\ IdleLogs
    /\ IdleRun

GetProcessInfo ==
    /\ pc_procs = "call"
    /\ processes' = get_process_info(proc_iter)
    /\ pc_procs' = "done"
    /\ UNCHANGED <<proc_iter, pc_info, sampled, failed, uptime_seconds, uptime, pc_uptime,
                   partitions, disks, pc_disk,
                   vars_alerts, vars_services, vars_logs, vars_run>>

NextProcs == GetProcessInfo

SpecProcs == InitProcs /\ [][NextProcs]_vars

(***************************************************************************)
(* get_uptime: datetime.now() - boot_time rendered as "<d>d <h>h <m>m".    *)
(***************************************************************************)
MaxUptimeDays == 11

\* The timedelta of a nonnegative number of whole seconds: days, and
\* 0 <= seconds < 86400.
timedelta(s) == [days |-> s \div Day, seconds |-> s % Day]

\* Durations since boot: every hour and minute of the day, at the first and
\* the last second of the minute.
UptimeSeconds ==
    {d * Day + h * 3600 + m * 60 + sec :
        d \in 0..MaxUptimeDays, h \in 0..23, m \in 0..59, sec \in {0, 59}}

\* (after the variant that takes the minutes of the whole day)
MinutesOfDay(seconds) == seconds \div 60

\* hours = uptime.seconds // 3600
Hours(seconds) == seconds \div 3600
\* minutes = (uptime.seconds % 3600) // 60
Minutes(seconds) == (seconds % 3600) \div 60

\* f"{days}d {hours}h {minutes}m"
get_uptime(s) ==
    LET td == timedelta(s)
    IN  Digits(td.days) \o <<"d", " ">> \o Digits(Hours(td.seconds)) \o <<"h", " ">>
            \o Digits(Minutes(td.seconds)) \o <<"m">>

InitUptime ==
    /\ uptime_seconds \in UptimeSeconds
    /\ uptime = <<>>
    /\ pc_uptime = "call"
    /\ IdleInfo /\ IdleDisk /\ IdleProcs
    /\ IdleAlerts
    /\ IdleServices
    /\ IdleLogs
    /\ IdleRun

GetUptime ==
    /\ pc_uptime = "call"
    /\ uptime' = get_uptime(uptime_seconds)
    /\ pc_uptime' = "done"
    /\ UNCHANGED <<uptime_seconds, pc_info, sampled, failed, partitions, disks, pc_disk,
                   proc_iter, processes, pc_procs,
                   vars_alerts, vars_services, vars_logs, vars_run>>

NextUptime == GetUptime

SpecUptime == InitUptime /\ [][NextUptime]_vars

(***************************************************************************)
(* Claims about check_alerts (checked under SpecAlerts).                   *)
(***************************************************************************)
OverDisk(d) == d.percent > thresholds.disk_percent
OverTemp(t) == t.val.current > thresholds.temp_celsius
Stopped(s) == s.val = "False"
IsServiceAlert(a) == a.rule = "service"

RuleAlerts(i) ==
    [cpu |-> IF i.cpu.percent_avg > thresholds.cpu_percent
             THEN <<Alert("cpu", "", i.cpu.percent_avg)>> ELSE <<>>,
     memory |-> IF i.memory.percent > thresholds.memory_percent
                THEN <<Alert("memory", "", i.memory.percent)>> ELSE <<>>,
     disk |-> LET over == SelectSeq(i.disk, OverDisk)
              IN  [k \in 1..Len(over) |-> Alert("disk", over[k].mountpoint, over[k].percent)],
     temperature |->
         LET over == IF i.has_temperature THEN SelectSeq(i.temperature, OverTemp) ELSE <<>>
         IN  [k \in 1..Len(over) |-> Alert("temperature", over[k].key, over[k].val.current)],
     service |-> LET down == SelectSeq(i.services, Stopped)
                 IN  [k \in 1..Len(down) |-> Alert("service", down[k].key, 0)],
     errors |-> IF Len(i.logs.errors) > 5
                THEN <<Alert("errors", "", Len(i.logs.errors))>> ELSE <<>>,
     auth_failures |-> IF Len(i.logs.auth_failures) >= 1
                       THEN <<Alert("auth_failures", "", Len(i.logs.auth_failures))>>
                       ELSE <<>>]

\* C1: check_alerts returns exactly the concatenation, in the fixed order CPU,
\* memory, disks (list order), temperature sensors, stopped services, error
\* count (> 5), auth-failure count (>= 1), of the alerts of the rules that
\* fire; every rule is evaluated whether or not an earlier one fired.
C1_AlertOrder ==
    pc_alerts = "done" =>
        LET r == RuleAlerts(info)
        IN  alerts = r.cpu \o r.memory \o r.disk \o r.temperature \o r.service
                     \o r.errors \o r.auth_failures

\* A snapshot in which all seven rules fire, three of them twice.
C1_Witness ==
    /\ pc_alerts = "done"
    /\ Len(alerts) = 10
    /\ {alerts[k].rule : k \in 1..Len(alerts)} =
           {"cpu", "memory", "disk", "temperature", "service", "errors", "auth_failures"}

ThresholdOf(rule) ==
    CASE rule = "cpu" -> thresholds.cpu_percent
      [] rule = "memory" -> thresholds.memory_percent
      [] rule = "disk" -> thresholds.disk_percent
      [] rule = "temperature" -> thresholds.temp_celsius

HasAlert(rule, subject) ==
    \E k \in 1..Len(alerts) : alerts[k].rule = rule /\ alerts[k].subject = subject

\* C2: thresholds are strict: a CPU average, memory percent, disk percent or
\* temperature exactly equal to its threshold (80, 85, 90, 80) produces no
\* alert; every threshold alert reports a value strictly above its threshold.
C2_StrictThresholds ==
    pc_alerts = "done" =>
        /\ info.cpu.percent_avg = 80 => ~HasAlert("cpu", "")
        /\ info.memory.percent = 85 => ~HasAlert("memory", "")
        /\ \A k \in 1..Len(info.disk) :
               info.disk[k].percent = 90 => ~HasAlert("disk", info.disk[k].mountpoint)
        /\ \A k \in 1..Len(info.temperature) :
               info.temperature[k].val.current = 80 =>
                   ~HasAlert("temperature", info.temperature[k].key)
        /\ \A k \in 1..Len(alerts) :
               alerts[k].rule \in {"cpu", "memory", "disk", "temperature"} =>
                   alerts[k].value > ThresholdOf(alerts[k].rule)

\* Every measured value sits exactly on its threshold, except one disk above it.
C2_Witness ==
    /\ pc_alerts = "done"
    /\ info.cpu.percent_avg = 80
    /\ info.memory.percent = 85
    /\ info.has_temperature
    /\ Len(info.temperature) = 2
    /\ \A k \in 1..Len(info.temperature) : info.temperature[k].val.current = 80
    /\ Len(info.disk) = 2
    /\ info.disk[1].percent = 90
    /\ info.disk[2].percent = 91
    /\ HasAlert("disk", info.disk[2].mountpoint)

\* C3: check_alerts emits exactly one service alert for each service whose
\* status is stopped (False) and none for a service that is unknown (None) or
\* running (True).
C3_ServiceAlerts ==
    pc_alerts = "done" =>
        /\ \A k \in 1..Len(info.services) :
               Cardinality({j \in 1..Len(alerts) :
                               /\ alerts[j].rule = "service"
                               /\ alerts[j].subject = info.services[k].key})
                   = IF info.services[k].val = "False" THEN 1 ELSE 0
        /\ \A j \in 1..Len(alerts) :
               alerts[j].rule = "service" =>
                   \E k \in 1..Len(info.services) : info.services[k].key = alerts[j].subject

\* One service stopped and one unknown: one service alert only.
C3_Witness ==
    /\ pc_alerts = "done"
    /\ \E k \in 1..Len(info.services) : info.services[k].val = "False"
    /\ \E k \in 1..Len(info.services) : info.services[k].val = "None"
    /\ Len(SelectSeq(alerts, IsServiceAlert)) = 1

(***************************************************************************)
(* Claims about check_services (checked under SpecServices).               *)
(***************************************************************************)
\* The outputs of a completed query that are the token "active", written out.
ActiveOutputs == { <<"a", "c", "t", "i", "v", "e", "\n">>, <<"a", "c", "t", "i", "v", "e">> }

\* The last query made for a service name.
LastQuery(name) ==
    LET k == CHOOSE k \in 1..Len(queries) :
                 /\ queries[k].service = name
                 /\ \A j \in (k + 1)..Len(queries) : queries[j].service # name
    IN  queries[k].outcome

StatusOf(name) ==
    LET k == CHOOSE k \in 1..Len(services) : services[k].key = name
    IN  services[k].val

ConfiguredNames == {check_services_cfg[k] : k \in 1..Len(check_services_cfg)}

\* C4: check_services returns an entry for every configured service name; the
\* status is unknown (None), never stopped, when the query timed out, the
\* binary was missing or a subprocess error occurred; running (True) only when
\* the query completed with the output "active"; stopped (False) for any other
\* completed query.  Every configured service is queried, whatever happened to
\* the ones before it.
C4_ServiceStatus ==
    pc_services = "done" =>
        /\ {services[k].key : k \in 1..Len(services)} = ConfiguredNames
        /\ Len(queries) = Len(check_services_cfg)
        /\ \A k \in 1..Len(queries) : queries[k].service = check_services_cfg[k]
        /\ \A name \in ConfiguredNames :
               LET o == LastQuery(name)
               IN  /\ o.raised \in {"TimeoutExpired", "FileNotFoundError", "SubprocessError"}
                          => StatusOf(name) = "None"
                   /\ StatusOf(name) = "True" <=> (o.raised = "none" /\ o.stdout \in ActiveOutputs)
                   /\ (o.raised = "none" /\ o.stdout \notin ActiveOutputs)
                          => StatusOf(name) = "False"

\* The first service's query timed out and the second was still checked: its
\* output was "inactive", so it is stopped, while the first is unknown.
C4_Witness ==
    /\ pc_services = "done"
    /\ Len(queries) = 2
    /\ queries[1].outcome.raised = "TimeoutExpired"
    /\ queries[2].outcome.raised = "none"
    /\ queries[2].outcome.stdout = <<"i", "n", "a", "c", "t", "i", "v", "e", "\n">>
    /\ queries[1].service # queries[2].service
    /\ StatusOf(queries[1].service) = "None"
    /\ StatusOf(queries[2].service) = "False"

(***************************************************************************)
(* Claims about analyze_logs (checked under SpecLogs).                     *)
(***************************************************************************)
\* What a reader finds in each sample line, ignoring case: the keywords it
\* contains.
Mentions(line) ==
    CASE line = line_error_upper -> {"error"}
      [] line = line_failed -> {"failed"}
      [] line = line_warning_error -> {"warning", "warn", "error"}
      [] line = line_warn_upper -> {"warn"}
      [] line = line_warning -> {"warning", "warn"}
      [] line = line_failed_invalid_user -> {"failed", "invalid user"}
      [] line = line_invalid_user -> {"invalid user"}
      [] line = line_auth_failure -> {"authentication failure"}
      [] line = line_plain -> {}
      [] line = line_padded_error -> {"error"}
      [] line = line_warn_auth -> {"warn", "authentication failure"}

\* The bucket the priority order gives a line: errors, else warnings, else
\* auth_failures, else none.
BucketOf(line) ==
    LET m == Mentions(line)
    IN  IF m \cap {"error", "failed"} # {} THEN "errors"
        ELSE IF m \cap {"warning", "warn"} # {} THEN "warnings"
        ELSE IF m \cap {"authentication failure", "invalid user"} # {} THEN "auth_failures"
        ELSE "ignored"

\* The lines scanned from the first n configured files, in scan order, each
\* with its file.
RECURSIVE Scanned(_)
Scanned(n) ==
    IF n = 0 THEN <<>>
    ELSE Scanned(n - 1) \o
         (IF log_fs[n].status = "ok"
          THEN [k \in 1..Len(log_fs[n].lines) |-> [file |-> log_files[n], raw |-> log_fs[n].lines[k]]]
          ELSE <<>>)

InErrors(e) == BucketOf(e.raw) = "errors"
InWarnings(e) == BucketOf(e.raw) = "warnings"
InAuthFailures(e) == BucketOf(e.raw) = "auth_failures"

Stored(es) == [k \in 1..Len(es) |-> [file |-> es[k].file, line |-> Strip(es[k].raw)]]

\* Everything the priority order puts in each bucket, of the first n files.
Classified(n) ==
    [errors |-> Stored(SelectSeq(Scanned(n), InErrors)),
     warnings |-> Stored(SelectSeq(Scanned(n), InWarnings)),
     auth_failures |-> Stored(SelectSeq(Scanned(n), InAuthFailures))]

\* C5: every scanned line is recorded in at most one list, the first whose
\* keywords it contains (case-insensitively) in the order errors ("error",
\* "failed"), warnings ("warning", "warn"), auth_failures ("authentication
\* failure", "invalid user"); a line with "error" and "warning", or with
\* "failed" and "invalid user", is recorded under errors only.
C5_FirstMatchClassification ==
    pc_logs = "loop" => log_analysis = Classified(log_i - 1)

HasLine(entries, file, raw) ==
    \E k \in 1..Len(entries) : entries[k] = [file |-> file, line |-> Strip(raw)]

\* A scanned file holding the lines that match two rules: each is under
\* errors and in no other list.
C5_Witness ==
    /\ pc_logs = "loop"
    /\ log_i = 2
    /\ log_fs[1] = [status |-> "ok", lines |-> MixedLog]
    /\ HasLine(log_analysis.errors, log_files[1], line_warning_error)
    /\ HasLine(log_analysis.errors, log_files[1], line_failed_invalid_user)
    /\ ~HasLine(log_analysis.warnings, log_files[1], line_warning_error)
    /\ ~HasLine(log_analysis.auth_failures, log_files[1], line_failed_invalid_user)
    /\ HasLine(log_analysis.warnings, log_files[1], line_warn_auth)

\* C6: after analyze_logs returns, each of the three lists has at most 10
\* entries and is the last 10 (files in configured order, lines in file
\* order) of everything classified into it, whatever the other two hold.
C6_LastTenPerList ==
    pc_logs = "done" =>
        \A key \in {"errors", "warnings", "auth_failures"} :
            LET all == Classified(Len(log_files))[key]
            IN  /\ Len(log_analysis[key]) <= 10
                /\ Len(log_analysis[key]) = IF Len(all) < 10 THEN Len(all) ELSE 10
                /\ \A k \in 1..Len(log_analysis[key]) :
                       log_analysis[key][k] = all[Len(all) - Len(log_analysis[key]) + k]

\* Errors and auth failures were cut to 10 while the warnings, fewer than 10,
\* were kept whole.
C6_Witness ==
    /\ pc_logs = "done"
    /\ Len(Classified(Len(log_files)).errors) > 10
    /\ Len(Classified(Len(log_files)).auth_failures) > 10
    /\ Len(Classified(Len(log_files)).warnings) \in 1..9
    /\ Len(log_analysis.errors) = 10
    /\ Len(log_analysis.auth_failures) = 10
    /\ log_analysis.warnings = Classified(Len(log_files)).warnings
    /\ log_analysis.errors[1] # Classified(Len(log_files)).errors[1]

(***************************************************************************)
(* Claims about clean_old_reports and run_daily_report (checked under      *)
(* Spec).                                                                  *)
(***************************************************************************)
\* The sample names that are not report names, by inspection.
NonReportNames == {notes_odt, report_txt, prefixed_report}

Logged(event) == \E k \in 1..Len(trace) : trace[k] = event
TimesLogged(event) == Cardinality({k \in 1..Len(trace) : trace[k] = event})

\* C7: clean_old_reports never deletes a file whose modification time is newer
\* than now - keep_days, and never deletes a file whose name is not a report
\* name (system_report_*.odt), however old: a step that removes a file from the
\* directory removes an old enough report.
C7_SweepDeletesOnlyOldReports ==
    [][\A n \in DOMAIN files :
           n \notin DOMAIN files' =>
               /\ ~(files[n] > now - keep_days * 86400)
               /\ n \notin NonReportNames]_vars

\* A run ended with the old report deleted, while an equally old file that is
\* not a report and the report just written are still there.
C7_Witness ==
    /\ pc_run = "completed"
    /\ deleted = <<old_report>>
    /\ old_report \notin DOMAIN files
    /\ notes_odt \in DOMAIN files
    /\ files[notes_odt] < now - keep_days * 86400
    /\ report_path \in DOMAIN files
    /\ files[report_path] > now - keep_days * 86400

\* stat() or unlink() raised on a report older than the cutoff.
ExpiredReportFailure ==
    /\ Logged("stat raised") \/ Logged("unlink raised")
    /\ raised_on \in DOMAIN files
    /\ raised_on \notin NonReportNames
    /\ files[raised_on] < now - keep_days * 86400

\* C8: a failure to stat or delete one expired report is not fatal: the sweep
\* goes on over the remaining files, so that when it ends every other expired
\* report is deleted, and the run completes normally.
C8_SweepSurvivesFailure ==
    ExpiredReportFailure =>
        /\ pc_run # "raised"
        /\ pc_run \in {"completed", "returned"} =>
               \A n \in DOMAIN files \ {raised_on} :
                   n \in NonReportNames \/ ~(files[n] < now - keep_days * 86400)

\* C9: when mail delivery fails the fallback open_in_thunderbird is invoked
\* exactly once, and never when delivery succeeds; no exception ends the run:
\* it goes on to the retention sweep and reaches "Daily report completed".
C9_MailFailureRecovered ==
    entry = "run_daily_report" =>
        /\ delivery = "sent" => TimesLogged("open_in_thunderbird") = 0
        /\ (delivery = "failed" /\ pc_run # "open_in_thunderbird")
               => TimesLogged("open_in_thunderbird") = 1
        /\ (delivery = "failed" /\ pc_run \in {"completed", "raised"})
               => /\ Logged("clean_old_reports")
                  /\ pc_run = "completed"
                  /\ Logged("Daily report completed")

ReportFailed == Logged("mkdir raised") \/ Logged("save raised")

\* C10: if the output directory cannot be created or the report file cannot be
\* written, the run aborts with the failure raised to the caller: no
\* notification is attempted and no retention sweep is performed.
C10_ReportFailureAborts ==
    ReportFailed =>
        /\ pc_run = "raised"
        /\ delivery = "none"
        /\ ~Logged("Email sent successfully")
        /\ ~Logged("Failed to send email")
        /\ ~Logged("open_in_thunderbird")
        /\ ~Logged("clean_old_reports")
        /\ deleted = <<>>
        /\ ~Logged("Daily report completed")

\* The report could not be written while an expired report, which a sweep
\* would have deleted, sits in the directory.
C10_Witness ==
    /\ pc_run = "raised"
    /\ Logged("save raised")
    /\ old_report \in DOMAIN files
    /\ files[old_report] < now - keep_days * 86400

(***************************************************************************)
(* Claims about get_system_info (checked under SpecInfo).                  *)
(***************************************************************************)
Metrics == {"cpu", "memory", "disk", "network", "processes", "temperature"}
SampledAs(k) == {sampled[i].val : i \in {j \in 1..Len(sampled) : sampled[j].key = k}}

\* C11: a failure while collecting a single metric never aborts
\* get_system_info: the pass returns a snapshot in which every failed metric
\* is omitted or zeroed (or holds what could be read) and every other metric
\* is present in full.
C11_MetricFailureTolerated ==
    failed # {} =>
        /\ pc_info # "raised"
        /\ pc_info = "done" =>
              /\ \A m \in failed : SampledAs(m) \subseteq {"zeroed", "partial"}
              /\ \A m \in Metrics \ failed : SampledAs(m) = {"complete"}

(***************************************************************************)
(* Claims about get_disk_info (checked under SpecDisk).                    *)
(***************************************************************************)
Queried(i) == partitions[i].status = "ok"
Denied(i) == partitions[i].status = "PermissionError"
SucceededIndexes == {i \in 1..Len(partitions) : Queried(i)}
\* The position in the result of the i-th enumerated partition, if it is kept.
RankOf(i) == Cardinality({j \in SucceededIndexes : j <= i})
Listed(i) == \E k \in 1..Len(disks) : disks[k].mountpoint = partitions[i].mountpoint

\* C12: get_disk_info returns exactly the partitions whose usage query
\* succeeded, in enumeration order: a partition whose query raised a
\* permission error is absent (not present with zeroed values), and the
\* partitions enumerated after it are still queried and included.
C12_DisksAreSucceededPartitions ==
    pc_disk = "done" =>
        /\ Len(disks) = Cardinality(SucceededIndexes)
        /\ \A i \in SucceededIndexes : disks[RankOf(i)] = DiskEntry(partitions[i])
        /\ \A i \in 1..Len(partitions) : Denied(i) => ~Listed(i)
        /\ \A i, j \in 1..Len(partitions) : (Denied(i) /\ i < j /\ Queried(j)) => Listed(j)

C12_Witness ==
    /\ pc_disk = "done"
    /\ Len(partitions) = 3
    /\ Queried(1) /\ Denied(2) /\ Queried(3)
    /\ Len(disks) = 2
    /\ disks[2].mountpoint = partitions[3].mountpoint

(***************************************************************************)
(* Claims about read failures in analyze_logs (checked under SpecLogs).    *)
(***************************************************************************)
ReadFailed(n) == log_fs[n].status = "raises"
ReadOk(n) == log_fs[n].status = "ok"
\* The configured files the loop has gone past.
Visited == 1..(log_i - 1)
\* Every classified line of the n-th file is in the list of its bucket.
EntriesKept(n) ==
    \A k \in 1..Len(log_fs[n].lines) :
        LET raw == log_fs[n].lines[k]
        IN  BucketOf(raw) # "ignored" =>
                HasLine(log_analysis[BucketOf(raw)], log_files[n], raw)

\* C13: a read failure on one configured log file does not abort the scan:
\* every later configured file that exists is still scanned, the entries
\* collected from earlier files are kept, and analyze_logs returns normally
\* with the three lists (each the last ten of what was collected).
C13_ReadFailureDoesNotAbort ==
    (\E n \in Visited : ReadFailed(n)) =>
        /\ pc_logs \in {"loop", "done"}
        /\ Len(log_errors) = Cardinality({n \in Visited : ReadFailed(n)})
        /\ pc_logs = "loop" => \A n \in Visited : ReadOk(n) => EntriesKept(n)
        /\ pc_logs = "done" =>
              /\ log_i = Len(log_files) + 1
              /\ DOMAIN log_analysis = {"errors", "warnings", "auth_failures"}
              /\ \A key \in DOMAIN log_analysis :
                     log_analysis[key] = LastN(Classified(Len(log_files))[key], 10)

\* A file read, then a file whose read fails, then a file read: the run
\* returns with the entries of the first and of the third file.
C13_Witness ==
    /\ pc_logs = "done"
    /\ Len(log_files) = 3
    /\ ReadOk(1) /\ ReadFailed(2) /\ ReadOk(3)
    /\ log_errors = <<log_files[2]>>
    /\ HasLine(log_analysis.errors, log_files[1], line_failed)
    /\ HasLine(log_analysis.errors, log_files[3], line_failed)
    /\ HasLine(log_analysis.warnings, log_files[3], line_warning)

(***************************************************************************)
(* Claims about get_process_info (checked under SpecProcs).                *)
(***************************************************************************)
Readable == {ProcInfo(proc_iter[i]) : i \in {j \in 1..Len(proc_iter) : proc_iter[j].status = "ok"}}
Min(a, b) == IF a < b THEN a ELSE b
Members(list) == {list[k] : k \in 1..Len(list)}

\* list holds min(5, total) different readable processes, in descending order
\* of key, and no readable process left out has a higher key than a listed one.
IsTopRanking(list, key) ==
    /\ Len(list) = Min(5, processes.total)
    /\ Members(list) \subseteq Readable
    /\ Cardinality(Members(list)) = Len(list)
    /\ \A k \in 1..(Len(list) - 1) : list[k][key] >= list[k + 1][key]
    /\ \A p \in Readable \ Members(list) : \A q \in Members(list) : q[key] >= p[key]

\* C14: get_process_info returns total = the number of processes whose info
\* was readable, top_cpu = the at most 5 readable processes with the highest
\* CPU% in descending order and top_memory = the at most 5 with the highest
\* memory% in descending order; each ranking is computed from all readable
\* processes, and each list has length min(5, total).
C14_ProcessRankings ==
    pc_procs = "done" =>
        /\ processes.total = Cardinality(Readable)
        /\ IsTopRanking(processes.top_cpu, "cpu_percent")
        /\ IsTopRanking(processes.top_memory, "memory_percent")

\* Six processes, one of them unreadable: five are ranked, and the two
\* rankings put different processes first.
C14_Witness ==
    /\ pc_procs = "done"
    /\ Len(proc_iter) = 6
    /\ processes.total = 5
    /\ Len(processes.top_cpu) = 5
    /\ processes.top_cpu[1].cpu_percent > processes.top_cpu[5].cpu_percent
    /\ processes.top_memory[1].memory_percent > processes.top_memory[5].memory_percent
    /\ processes.top_cpu[1] # processes.top_memory[1]

(***************************************************************************)
(* Claims about get_uptime (checked under SpecUptime).                     *)
(***************************************************************************)
\* Reading the rendered string back: the position of a unit letter, and the
\* decimal number written between two positions.
PositionOf(s, ch) == CHOOSE k \in 1..Len(s) : s[k] = ch
DigitValue(ch) == CHOOSE v \in 0..9 : DigitChars[v + 1] = ch
IsDigit(ch) == \E v \in 0..9 : DigitChars[v + 1] = ch
RECURSIVE NumberOf(_)
NumberOf(digits) ==
    IF Len(digits) = 1 THEN DigitValue(digits[1])
    ELSE 10 * NumberOf(SubSeq(digits, 1, Len(digits) - 1)) + DigitValue(digits[Len(digits)])

\* The string has the shape <digits>d <digits>h <digits>m.
WellFormedUptime(s) ==
    /\ \A ch \in {"d", "h", "m"} : Cardinality({k \in 1..Len(s) : s[k] = ch}) = 1
    /\ LET pd == PositionOf(s, "d")
           ph == PositionOf(s, "h")
           pm == PositionOf(s, "m")
       IN  /\ 1 < pd /\ pd + 2 < ph /\ ph + 2 < pm /\ pm = Len(s)
           /\ s[pd + 1] = " " /\ s[ph + 1] = " "
           /\ \A k \in (1..(pd - 1)) \cup ((pd + 2)..(ph - 1)) \cup ((ph + 2)..(pm - 1)) :
                  IsDigit(s[k])

RenderedDays(s) == NumberOf(SubSeq(s, 1, PositionOf(s, "d") - 1))
RenderedHours(s) == NumberOf(SubSeq(s, PositionOf(s, "d") + 2, PositionOf(s, "h") - 1))
RenderedMinutes(s) == NumberOf(SubSeq(s, PositionOf(s, "h") + 2, PositionOf(s, "m") - 1))

\* C15: for a nonnegative duration since boot of s whole seconds, get_uptime
\* renders "<d>d <h>h <m>m" with d = s div 86400, h = (s mod 86400) div 3600
\* and m = (s mod 3600) div 60, so that 0 <= h < 24, 0 <= m < 60 and
\* d*1440 + h*60 + m = s div 60.
C15_UptimeRendering ==
    pc_uptime = "done" =>
        /\ WellFormedUptime(uptime)
        /\ LET s == uptime_seconds
               d == RenderedDays(uptime)
               h == RenderedHours(uptime)
               m == RenderedMinutes(uptime)
           IN  /\ d = s \div 86400
               /\ h = (s % 86400) \div 3600
               /\ m = (s % 3600) \div 60
               /\ 0 <= h /\ h < 24
               /\ 0 <= m /\ m < 60
               /\ d * 1440 + h * 60 + m = s \div 60

\* 10 days, 23 hours, 59 minutes and 59 seconds after boot: "10d 23h 59m".
C15_Witness ==
    /\ pc_uptime = "done"
    /\ uptime_seconds = 10 * 86400 + 23 * 3600 + 59 * 60 + 59
    /\ uptime = <<"1", "0", "d", " ", "2", "3", "h", " ", "5", "9", "m">>

(***************************************************************************)
(* Claims about the order of the stages of run_daily_report (checked       *)
(* under Spec).                                                            *)
(***************************************************************************)
\* The events of the trace that belong to each stage, in the order of the
\* stages: collect, evaluate, write, notify (with its fallback), sweep.
StageEvents ==
    <<{"get_system_info"},
      {"check_alerts"},
      {"Report saved"},
      {"Email sent successfully", "Failed to send email", "open_in_thunderbird",
       "Email opened in Thunderbird", "Thunderbird not found"},
      {"clean_old_reports"}>>
\* The event with which each stage is entered or, for the first three, done.
StageMarks ==
    <<{"get_system_info"}, {"check_alerts"}, {"Report saved"},
      {"Email sent successfully", "Failed to send email"}, {"clean_old_reports"}>>
NotificationReturned ==
    {"Email sent successfully", "Email opened in Thunderbird", "Thunderbird not found"}
StageOf(event) ==
    IF \E n \in 1..Len(StageEvents) : event \in StageEvents[n]
    THEN CHOOSE n \in 1..Len(StageEvents) : event \in StageEvents[n]
    ELSE 0
Occurrences(events) == {k \in 1..Len(trace) : trace[k] \in events}
HappenedBefore(events, k) == \E j \in 1..(k - 1) : trace[j] \in events

\* C16: within one run of run_daily_report the stages occur at most once
\* each and in the order collect snapshot, evaluate alerts, write report,
\* attempt notification, retention sweep: alerts are evaluated only on the
\* completed snapshot, the notification is attempted only after the report
\* file has been written, and the sweep starts only after the notification
\* attempt (including any fallback) has returned.
C16_StageOrder ==
    entry = "run_daily_report" =>
        /\ \A n \in 1..Len(StageMarks) : Cardinality(Occurrences(StageMarks[n])) <= 1
        /\ \A j, k \in 1..Len(trace) :
               (j < k /\ StageOf(trace[j]) > 0 /\ StageOf(trace[k]) > 0)
                   => StageOf(trace[j]) <= StageOf(trace[k])
        /\ \A k \in Occurrences({"check_alerts"}) : HappenedBefore({"get_system_info"}, k)
        /\ \A k \in Occurrences(StageEvents[4]) : HappenedBefore({"Report saved"}, k)
        /\ \A k \in Occurrences({"open_in_thunderbird"}) :
               HappenedBefore({"Failed to send email"}, k)
        /\ \A k \in Occurrences({"clean_old_reports"}) :
               /\ HappenedBefore(NotificationReturned, k)
               /\ HappenedBefore({"Failed to send email"}, k)
                      => HappenedBefore({"Email opened in Thunderbird",
                                         "Thunderbird not found"}, k)
        /\ pc_run = "check_alerts" => Occurrences({"get_system_info"}) # {}
        /\ pc_run \in {"send_email", "open_in_thunderbird"} => report_path \in DOMAIN files
        /\ pc_run \in {"clean_old_reports", "sweep", "completed"} =>
               Occurrences(NotificationReturned) # {}

\* A run through all five stages, with the fallback, to completion.
C16_Witness ==
    /\ entry = "run_daily_report"
    /\ pc_run = "completed"
    /\ trace = <<"get_system_info", "check_alerts", "Report saved", "Failed to send email",
                 "open_in_thunderbird", "Email opened in Thunderbird", "clean_old_reports",
                 "Daily report completed">>

(***************************************************************************)
(* Claims about a run's own report and the retention sweep (checked under  *)
(* Spec).                                                                  *)
(***************************************************************************)
ReportWritten == report_path # <<>>
SweptByThisRun(name) == \E k \in 1..Len(deleted) : deleted[k] = name

\* C17: for every configured keep_days >= 1, the report file written by a
\* run of run_daily_report is never deleted by the retention sweep of that
\* same run, so a completed run always leaves its own report on disk.
C17_OwnReportSurvivesSweep ==
    (entry = "run_daily_report" /\ keep_days >= 1 /\ ReportWritten) =>
        /\ ~SweptByThisRun(report_path)
        /\ pc_run = "completed" => report_path \in DOMAIN files

=============================================================================
